---- MODULE Spec2Model ----
(***************************************************************************)
(* The REST layer of the AirBnB clone (api/v1/views/*.py, api/v1/app.py)   *)
(* and the entity base type (models/base_model.py) as a state machine.     *)
(* One action per route handler; the storage engine (models/engine, not    *)
(* part of the sources under study) is modelled from its written contract. *)
(***************************************************************************)
EXTENDS Integers, Sequences, FiniteSets, TLC

VARIABLES
    objects,   \* storage engine identity map: <<class name, id>> -> attribute dict
    clock,     \* the wall clock (UTC), in microsecond ticks
    uuid,      \* number of uuid4() values drawn so far
    tz,        \* offset of the server's local time to UTC, in ticks
    scope,     \* the view module the client of this run talks to
    phase,     \* "idle" between requests, "responded" until the teardown hook ran
    req,       \* the request being answered
    resp,      \* the response to it
    calls,     \* the storage engine operations the handler invoked, in order
    links,     \* Place.amenities: place id -> the list of linked amenity ids
    engine,    \* the storage engine: "Uninitialized", "Ready" or "Closed"
    threads    \* the link requests in flight when requests are served by threads

vars == <<objects, clock, uuid, tz, scope, phase, req, resp, calls, links, engine, threads>>

\* How many entities one run may construct (each construction draws a uuid4).
MaxNew == 1

(***************************************************************************)
(* Values.  Python and JSON values are records of one shape so that any    *)
(* two can be compared: a str is its sequence of characters (s), a uuid    *)
(* string is the text "uuid" followed by its number (n), a datetime is     *)
(* its tick count (n), a JSON number is n.                                 *)
(***************************************************************************)
Str(chars) == [ty |-> "str", s |-> chars, n |-> 0]
IdStr(k) == [ty |-> "str", s |-> <<"uuid">>, n |-> k]
DT(ticks) == [ty |-> "datetime", s |-> <<>>, n |-> ticks]
Num(k) == [ty |-> "int", s |-> <<>>, n |-> k]

EmptyDict == [k \in {} |-> Str(<<>>)]

Kinds == {"State", "City", "Amenity", "User", "Place", "Review"}

(***************************************************************************)
(* models/base_model.py: the time format and the two conversions.          *)
(* "%Y-%m-%dT%H:%M:" is kept as one character (every tick of a run lies in *)
(* the same minute); seconds and microseconds are rendered and parsed      *)
(* digit by digit.                                                         *)
(***************************************************************************)
DigitChar == <<"0", "1", "2", "3", "4", "5", "6", "7", "8", "9">>

IsDigit(c) == \E i \in 1..10 : DigitChar[i] = c

DigitVal(c) == (CHOOSE i \in 1..10 : DigitChar[i] = c) - 1

\* Zero-padded decimal rendering, at least `width` characters.
RECURSIVE Pad(_, _)
Pad(k, width) ==
    IF width <= 1 /\ k < 10 THEN <<DigitChar[k + 1]>>
    ELSE Append(Pad(k \div 10, width - 1), DigitChar[(k % 10) + 1])

RECURSIVE DigitsVal(_)
DigitsVal(ds) ==
    IF ds = <<>> THEN 0
    ELSE 10 * DigitsVal(SubSeq(ds, 1, Len(ds) - 1)) + DigitVal(ds[Len(ds)])

RECURSIVE Pow10(_)
Pow10(e) == IF e = 0 THEN 1 ELSE 10 * Pow10(e - 1)

time == "%Y-%m-%dT%H:%M:"

\* strftime as it would be with the microseconds written without leading zeros.
strftime_unpadded(d) ==
    <<time>> \o Pad(d.n \div 1000000, 2) \o <<".">> \o Pad(d.n % 1000000, 1)

\* datetime.strftime(time): seconds on two digits, microseconds on six.
strftime(d) ==
    <<time>> \o Pad(d.n \div 1000000, 2) \o <<".">> \o Pad(d.n % 1000000, 6)

\* datetime.strptime(text, time): %S takes one or two digits, %f one to six
\* digits read as a fraction of a second; anything else raises ValueError.
strptime(text) ==
    LET dot == IF Len(text) >= 3 /\ text[3] = "." THEN 3 ELSE 4
        secs == SubSeq(text, 2, dot - 1)
        frac == SubSeq(text, dot + 1, Len(text))
        wellformed ==
            /\ Len(text) > dot
            /\ text[1] = time
            /\ text[dot] = "."
            /\ \A i \in 1..Len(secs) : IsDigit(secs[i])
            /\ Len(frac) <= 6
            /\ \A i \in 1..Len(frac) : IsDigit(frac[i])
            /\ DigitsVal(secs) <= 61
    IN  IF wellformed
        THEN [ok |-> TRUE,
              n |-> DigitsVal(secs) * 1000000 + DigitsVal(frac) * Pow10(6 - Len(frac))]
        ELSE [ok |-> FALSE, n |-> 0]

IsTimestampKey(k) == k \in {"created_at", "updated_at"}

\* BaseModel.__init__(**kwargs) with the uuid4 and the datetime.now() it drew.
\* The loop sets every key but __class__ over the generated defaults and
\* parses created_at / updated_at whenever they hold a str; a str that does
\* not parse raises (ok = FALSE).
BaseModel_init(kwargs, newid, now) ==
    LET defaults == ("id" :> newid) @@ ("created_at" :> now) @@ ("updated_at" :> now)
        given == [k \in DOMAIN kwargs \ {"__class__"} |-> kwargs[k]]
        raw == given @@ defaults
        isstr(k) == raw[k].ty = "str"
        raises == \E k \in {"created_at", "updated_at"} :
                      isstr(k) /\ ~strptime(raw[k].s).ok
    IN  [ok |-> ~raises,
         self |-> [k \in DOMAIN raw |->
                      IF IsTimestampKey(k) /\ isstr(k) /\ ~raises
                      THEN DT(strptime(raw[k].s).n)
                      ELSE raw[k]]]

\* to_dict as it would be if secure_pwd were not looked at.
to_dict_keeps_password(self, cls, secure_pwd) ==
    LET raises == \E k \in DOMAIN self : IsTimestampKey(k) /\ self[k].ty # "datetime"
    IN  [ok |-> ~raises,
         d |-> IF raises THEN EmptyDict
               ELSE [k \in DOMAIN self \cup {"__class__"} |->
                        IF k = "__class__" THEN Str(<<cls>>)
                        ELSE IF IsTimestampKey(k) THEN Str(strftime(self[k]))
                        ELSE self[k]]]

\* BaseModel.to_dict(secure_pwd): a copy of __dict__ with both timestamps
\* rendered by strftime (which only a datetime has: anything else raises, ok =
\* FALSE), the class name under __class__, and password dropped when secure_pwd.
to_dict(self, cls, secure_pwd) ==
    LET raises == \E k \in DOMAIN self : IsTimestampKey(k) /\ self[k].ty # "datetime"
        keys == (DOMAIN self \cup {"__class__"})
                    \ (IF secure_pwd THEN {"password"} ELSE {})
    IN  [ok |-> ~raises,
         d |-> IF raises THEN EmptyDict
               ELSE [k \in keys |->
                        IF k = "__class__" THEN Str(<<cls>>)
                        ELSE IF IsTimestampKey(k) THEN Str(strftime(self[k]))
                        ELSE self[k]]]

(***************************************************************************)
(* The storage engine (in-memory strategy), from its contract.             *)
(***************************************************************************)
Key(cls, id) == <<cls, id>>

\* get(kind, id): point lookup, absent is a value and not an error.
storage_get(cls, id) ==
    IF Key(cls, id) \in DOMAIN objects
    THEN [found |-> TRUE, obj |-> objects[Key(cls, id)]]
    ELSE [found |-> FALSE, obj |-> EmptyDict]

\* new(entity): registers the entity under "<Kind>.<id>".
storage_new(objs, cls, obj) == (Key(cls, obj["id"]) :> obj) @@ objs

\* save(): serializes the whole identity map (each entity's full attribute
\* mapping, password included); an entity that does not serialize makes the
\* flush fail, and the failure propagates to the caller.
storage_save(objs) == \A key \in DOMAIN objs : to_dict(objs[key], key[1], FALSE).ok

\* delete(entity): removes it from the identity map; absent is a no-op.
storage_delete(objs, cls, obj) ==
    [key \in DOMAIN objs \ {Key(cls, obj["id"])} |-> objs[key]]

\* all(kind): the resident entities of one kind.
storage_all(cls) == {objects[key] : key \in {k \in DOMAIN objects : k[1] = cls}}

\* count(kind): the number of resident entities of one kind.
storage_count(cls) == Cardinality({k \in DOMAIN objects : k[1] = cls})

\* A one-to-many relation (State.cities, City.places, Place.reviews): a view
\* computed by scanning the resident entities of the child kind and filtering
\* on the foreign key.
related(cls, fk, id) == {obj \in storage_all(cls) : fk \in DOMAIN obj /\ obj[fk] = id}

\* Place.amenities: the list of linked amenity ids of a place (a place that
\* was never linked has the empty list).
amenities(lnk, place_id) == IF place_id \in DOMAIN lnk THEN lnk[place_id] ELSE <<>>

\* amenity in place.amenities
contains(list, amenity_id) == \E i \in DOMAIN list : list[i] = amenity_id

\* place.amenities = list
with_amenities(lnk, place_id, list) ==
    IF list = <<>> THEN [p \in DOMAIN lnk \ {place_id} |-> lnk[p]]
    ELSE (place_id :> list) @@ lnk

\* list.remove(x): removes the first occurrence.
RECURSIVE remove(_, _)
remove(list, x) ==
    IF list = <<>> THEN <<>>
    ELSE IF Head(list) = x THEN Tail(list)
    ELSE <<Head(list)>> \o remove(Tail(list), x)

\* Every occurrence of x removed.
RECURSIVE without(_, _)
without(list, x) ==
    IF list = <<>> THEN <<>>
    ELSE IF Head(list) = x THEN without(Tail(list), x)
    ELSE <<Head(list)>> \o without(Tail(list), x)

\* delete(entity) on the association: the links of a deleted Place and the
\* links to a deleted Amenity are removed.
storage_delete_links(lnk, cls, id) ==
    IF cls = "Place" THEN [p \in DOMAIN lnk \ {id} |-> lnk[p]]
    ELSE IF cls = "Amenity"
         THEN LET left == [p \in DOMAIN lnk |-> without(lnk[p], id)]
              IN  [p \in {x \in DOMAIN left : left[x] # <<>>} |-> left[p]]
    ELSE lnk

\* BaseModel.save() as it would be without storage.new(self).
save_without_new(objs, cls, self, utcnow) ==
    LET stamped == [self EXCEPT !["updated_at"] = utcnow]
    IN  [ok |-> storage_save(objs), self |-> stamped, objs |-> objs]

\* BaseModel.save(): updated_at = utcnow(), storage.new(self), storage.save().
save(objs, cls, self, utcnow) ==
    LET stamped == [self EXCEPT !["updated_at"] = utcnow]
        registered == storage_new(objs, cls, stamped)
    IN  [ok |-> storage_save(registered), self |-> stamped, objs |-> registered]

\* BaseModel.delete(): storage.delete(self).
delete(objs, cls, self) == storage_delete(objs, cls, self)

(***************************************************************************)
(* Requests and responses.                                                 *)
(***************************************************************************)
NoId == Str(<<>>)

\* request.get_json(): None for a body that is not JSON, else the object.
NotJSON == [json |-> FALSE, d |-> EmptyDict]
Json(d) == [json |-> TRUE, d |-> d]

\* `not request.get_json()`: None and the object with no keys are both falsy.
Falsy(body) == ~body.json \/ DOMAIN body.d = {}

Request(method, cls, id, parent, body) ==
    [method |-> method, cls |-> cls, id |-> id, parent |-> parent, body |-> body]

Response(status, error, d) ==
    [status |-> status, error |-> error, body |-> d, list |-> {}]

NoRequest == Request("", "", NoId, NoId, NotJSON)
NoResponse == Response(0, "", EmptyDict)

\* app.errorhandler(404): what abort(404) answers.
page_not_found == Response(404, "Not found", EmptyDict)

\* make_response(jsonify({"error": message}), 400)
BadRequest(message) == Response(400, message, EmptyDict)

\* An exception that no handler catches.
ServerError == Response(500, "", EmptyDict)

\* One request answered: the response and the state the handler leaves.
Respond(q, r, objs, lnk, clk, drawn, log) ==
    /\ phase = "idle"
    /\ phase' = "responded"
    /\ req' = q
    /\ resp' = r
    /\ objects' = objs
    /\ links' = lnk
    /\ clock' = clk
    /\ uuid' = drawn
    /\ calls' = log
    /\ UNCHANGED <<tz, scope, engine, threads>>

\* The same for a handler that leaves the links alone.
Reply(q, r, objs, clk, drawn, log) == Respond(q, r, objs, links, clk, drawn, log)

(***************************************************************************)
(* The four verbs every view module repeats for its own class.             *)
(***************************************************************************)
\* GET by id: storage.get, abort(404) when absent, else jsonify(obj.to_dict()).
GetById(cls, id) ==
    LET q == Request("GET", cls, id, NoId, NotJSON)
        got == storage_get(cls, id)
        out == to_dict(got.obj, cls, TRUE)
    IN  IF ~got.found THEN Reply(q, page_not_found, objects, clock, uuid, <<"get">>)
        ELSE IF ~out.ok THEN Reply(q, ServerError, objects, clock, uuid, <<"get">>)
        ELSE Reply(q, Response(200, "", out.d), objects, clock, uuid, <<"get">>)

\* DELETE by id: storage.get, abort(404) when absent, else obj.delete(),
\* storage.save(), jsonify({}).
DeleteById(cls, id) ==
    LET q == Request("DELETE", cls, id, NoId, NotJSON)
        got == storage_get(cls, id)
        left == delete(objects, cls, got.obj)
        unlinked == storage_delete_links(links, cls, id)
        log == <<"get", "delete", "save">>
    IN  IF ~got.found THEN Reply(q, page_not_found, objects, clock, uuid, <<"get">>)
        ELSE IF ~storage_save(left)
             THEN Respond(q, ServerError, left, unlinked, clock, uuid, log)
        ELSE Respond(q, Response(200, "", EmptyDict), left, unlinked, clock, uuid, log)

\* The tail of every POST handler: construct, (assign `after`), obj.save(),
\* jsonify(obj.to_dict()), 201.  now() is read at construction, utcnow() by save.
Persist(q, cls, kwargs, after, before) ==
    LET made == BaseModel_init(kwargs, IdStr(uuid + 1), DT(clock + tz))
        obj == after @@ made.self
        saved == save(objects, cls, obj, DT(clock + 1))
        out == to_dict(saved.self, cls, TRUE)
        log == before \o <<"new", "save">>
    IN  /\ uuid < Cardinality(Kinds) + MaxNew
        /\ IF ~made.ok THEN Reply(q, ServerError, objects, clock + 1, uuid + 1, before)
           ELSE IF ~saved.ok \/ ~out.ok
                THEN Reply(q, ServerError, saved.objs, clock + 2, uuid + 1, log)
           ELSE Reply(q, Response(201, "", out.d), saved.objs, clock + 2, uuid + 1, log)

\* PUT: the body check, storage.get, abort(404) when absent, setattr for every
\* key of the body that is not in the handler's list, storage.save(),
\* jsonify(obj.to_dict()).
Update(cls, id, body, ignored) ==
    LET q == Request("PUT", cls, id, NoId, body)
        got == storage_get(cls, id)
        applied == DOMAIN body.d \ ignored
        obj == [k \in DOMAIN got.obj \cup applied |->
                   IF k \in applied THEN body.d[k] ELSE got.obj[k]]
        objs == [objects EXCEPT ![Key(cls, id)] = obj]
        out == to_dict(obj, cls, TRUE)
        log == <<"get", "save">>
    IN  IF Falsy(body) THEN Reply(q, BadRequest("Not a JSON"), objects, clock, uuid, <<>>)
        ELSE IF ~got.found THEN Reply(q, page_not_found, objects, clock, uuid, <<"get">>)
        ELSE IF ~storage_save(objs) \/ ~out.ok
             THEN Reply(q, ServerError, objs, clock, uuid, log)
        ELSE Reply(q, Response(200, "", out.d), objs, clock, uuid, log)

\* GET the children of a parent: storage.get of the parent, abort(404) when
\* absent, else [obj.to_dict() for obj in parent.<children>].
ListRelated(cls, parent_cls, fk, parent_id) ==
    LET q == Request("GET", cls, NoId, parent_id, NotJSON)
        parent == storage_get(parent_cls, parent_id)
        children == related(cls, fk, parent.obj["id"])
    IN  IF ~parent.found THEN Reply(q, page_not_found, objects, clock, uuid, <<"get">>)
        ELSE IF \E obj \in children : ~to_dict(obj, cls, TRUE).ok
             THEN Reply(q, ServerError, objects, clock, uuid, <<"get", "all">>)
        ELSE Reply(q, [Response(200, "", EmptyDict) EXCEPT
                          !.list = {to_dict(obj, cls, TRUE).d : obj \in children}],
                   objects, clock, uuid, <<"get", "all">>)

(***************************************************************************)
(* api/v1/views/states.py                                                  *)
(***************************************************************************)
get_method_state(state_id) == GetById("State", state_id)

del_method(state_id) == DeleteById("State", state_id)

create_obj(body) ==
    LET q == Request("POST", "State", NoId, NoId, body)
    IN  IF Falsy(body) THEN Reply(q, BadRequest("Not a JSON"), objects, clock, uuid, <<>>)
        ELSE IF "name" \notin DOMAIN body.d
             THEN Reply(q, BadRequest("Missing name"), objects, clock, uuid, <<>>)
        ELSE Persist(q, "State", body.d, EmptyDict, <<>>)

post_method(state_id, body) ==
    Update("State", state_id, body, {"id", "created_at", "updated_at"})

(***************************************************************************)
(* api/v1/views/cities.py                                                  *)
(***************************************************************************)
get_cities(state_id) == ListRelated("City", "State", "state_id", state_id)

get_city(city_id) == GetById("City", city_id)

del_city(city_id) == DeleteById("City", city_id)

\* create_obj_city as it would be with the body looked at before the State.
create_obj_city_body_first(state_id, body) ==
    LET q == Request("POST", "City", NoId, state_id, body)
        state == storage_get("State", state_id)
    IN  IF Falsy(body)
        THEN Reply(q, BadRequest("Not a JSON"), objects, clock, uuid, <<>>)
        ELSE IF "name" \notin DOMAIN body.d
             THEN Reply(q, BadRequest("Missing name"), objects, clock, uuid, <<>>)
        ELSE IF ~state.found
             THEN Reply(q, page_not_found, objects, clock, uuid, <<"get">>)
        ELSE Persist(q, "City", body.d, "state_id" :> state.obj["id"], <<"get">>)

create_obj_city(state_id, body) ==
    LET q == Request("POST", "City", NoId, state_id, body)
        state == storage_get("State", state_id)
    IN  IF ~state.found THEN Reply(q, page_not_found, objects, clock, uuid, <<"get">>)
        ELSE IF Falsy(body)
             THEN Reply(q, BadRequest("Not a JSON"), objects, clock, uuid, <<"get">>)
        ELSE IF "name" \notin DOMAIN body.d
             THEN Reply(q, BadRequest("Missing name"), objects, clock, uuid, <<"get">>)
        ELSE Persist(q, "City", body.d, "state_id" :> state.obj["id"], <<"get">>)

post_city(city_id, body) ==
    Update("City", city_id, body, {"id", "state_id", "created_at", "updated_at"})

(***************************************************************************)
(* api/v1/views/amenities.py                                               *)
(***************************************************************************)
get_amenity(amenity_id) == GetById("Amenity", amenity_id)

del_amenity(amenity_id) == DeleteById("Amenity", amenity_id)

create_obj_amenity(body) ==
    LET q == Request("POST", "Amenity", NoId, NoId, body)
    IN  IF Falsy(body) THEN Reply(q, BadRequest("Not a JSON"), objects, clock, uuid, <<>>)
        ELSE IF "name" \notin DOMAIN body.d
             THEN Reply(q, BadRequest("Missing name"), objects, clock, uuid, <<>>)
        ELSE Persist(q, "Amenity", body.d, EmptyDict, <<>>)

post_amenity(amenity_id, body) ==
    Update("Amenity", amenity_id, body, {"id", "created_at", "updated_at"})

(***************************************************************************)
(* api/v1/views/users.py                                                   *)
(***************************************************************************)
\* GET /users: [obj.to_dict() for obj in storage.all(User).values()]
get_all_users ==
    LET q == Request("GET", "User", NoId, NoId, NotJSON)
        users == storage_all("User")
    IN  IF \E u \in users : ~to_dict(u, "User", TRUE).ok
        THEN Reply(q, ServerError, objects, clock, uuid, <<"all">>)
        ELSE Reply(q, [Response(200, "", EmptyDict) EXCEPT
                          !.list = {to_dict(u, "User", TRUE).d : u \in users}],
                   objects, clock, uuid, <<"all">>)

get_user(user_id) == GetById("User", user_id)

del_user(user_id) == DeleteById("User", user_id)

\* create_obj_user as it would be if the password were looked for after
\* obj.save().
create_obj_user_checks_late(body) ==
    LET q == Request("POST", "User", NoId, NoId, body)
        made == BaseModel_init(body.d, IdStr(uuid + 1), DT(clock + tz))
        saved == save(objects, "User", made.self, DT(clock + 1))
    IN  IF Falsy(body) THEN Reply(q, BadRequest("Not a JSON"), objects, clock, uuid, <<>>)
        ELSE IF "email" \notin DOMAIN body.d
             THEN Reply(q, BadRequest("Missing email"), objects, clock, uuid, <<>>)
        ELSE IF "password" \notin DOMAIN body.d
             THEN /\ uuid < Cardinality(Kinds) + MaxNew
                  /\ Reply(q, BadRequest("Missing password"),
                           IF made.ok THEN saved.objs ELSE objects,
                           clock + 2, uuid + 1, <<"new", "save">>)
        ELSE Persist(q, "User", body.d, EmptyDict, <<>>)

create_obj_user(body) ==
    LET q == Request("POST", "User", NoId, NoId, body)
    IN  IF Falsy(body) THEN Reply(q, BadRequest("Not a JSON"), objects, clock, uuid, <<>>)
        ELSE IF "email" \notin DOMAIN body.d
             THEN Reply(q, BadRequest("Missing email"), objects, clock, uuid, <<>>)
        ELSE IF "password" \notin DOMAIN body.d
             THEN Reply(q, BadRequest("Missing password"), objects, clock, uuid, <<>>)
        ELSE Persist(q, "User", body.d, EmptyDict, <<>>)

\* post_user as it would be without 'email' in its list.
post_user_applies_email(user_id, body) ==
    Update("User", user_id, body, {"id", "created_at", "updated_at"})

post_user(user_id, body) ==
    Update("User", user_id, body, {"id", "email", "created_at", "updated_at"})

(***************************************************************************)
(* api/v1/views/places.py                                                  *)
(***************************************************************************)
\* get_all_places as it would be if it listed storage.all(Place).
get_all_places_unfiltered(city_id) ==
    LET q == Request("GET", "Place", NoId, city_id, NotJSON)
        city == storage_get("City", city_id)
        places == storage_all("Place")
    IN  IF ~city.found THEN Reply(q, page_not_found, objects, clock, uuid, <<"get">>)
        ELSE IF \E obj \in places : ~to_dict(obj, "Place", TRUE).ok
             THEN Reply(q, ServerError, objects, clock, uuid, <<"get", "all">>)
        ELSE Reply(q, [Response(200, "", EmptyDict) EXCEPT
                          !.list = {to_dict(obj, "Place", TRUE).d : obj \in places}],
                   objects, clock, uuid, <<"get", "all">>)

get_all_places(city_id) == ListRelated("Place", "City", "city_id", city_id)

get_place(place_id) == GetById("Place", place_id)

del_place(place_id) == DeleteById("Place", place_id)

\* create_obj_place as it would be without the look-up of the User.
create_obj_place_any_user(city_id, body) ==
    LET q == Request("POST", "Place", NoId, city_id, body)
        city == storage_get("City", city_id)
        kwargs == ("city_id" :> city_id) @@ body.d
    IN  IF ~city.found THEN Reply(q, page_not_found, objects, clock, uuid, <<"get">>)
        ELSE IF Falsy(body)
             THEN Reply(q, BadRequest("Not a JSON"), objects, clock, uuid, <<"get">>)
        ELSE IF "user_id" \notin DOMAIN body.d
             THEN Reply(q, BadRequest("Missing user_id"), objects, clock, uuid, <<"get">>)
        ELSE IF "name" \notin DOMAIN body.d
             THEN Reply(q, BadRequest("Missing name"), objects, clock, uuid, <<"get">>)
        ELSE Persist(q, "Place", kwargs, EmptyDict, <<"get">>)

create_obj_place(city_id, body) ==
    LET q == Request("POST", "Place", NoId, city_id, body)
        city == storage_get("City", city_id)
        kwargs == ("city_id" :> city_id) @@ body.d
        user == storage_get("User", kwargs["user_id"])
    IN  IF ~city.found THEN Reply(q, page_not_found, objects, clock, uuid, <<"get">>)
        ELSE IF Falsy(body)
             THEN Reply(q, BadRequest("Not a JSON"), objects, clock, uuid, <<"get">>)
        ELSE IF "user_id" \notin DOMAIN body.d
             THEN Reply(q, BadRequest("Missing user_id"), objects, clock, uuid, <<"get">>)
        ELSE IF "name" \notin DOMAIN body.d
             THEN Reply(q, BadRequest("Missing name"), objects, clock, uuid, <<"get">>)
        ELSE IF ~user.found
             THEN Reply(q, page_not_found, objects, clock, uuid, <<"get", "get">>)
        ELSE Persist(q, "Place", kwargs, EmptyDict, <<"get", "get">>)

post_place(place_id, body) ==
    Update("Place", place_id, body,
           {"id", "user_id", "city_id", "created_at", "updated"})

\* data.get(key, None): the list under the key, nothing when the key is absent.
Filter(data, key) == IF key \in DOMAIN data THEN data[key] ELSE <<>>

\* One storage.get for every id of a list.
Gets(ids) == [i \in DOMAIN ids |-> "get"]

\* The ids of a list.
Named(ids) == {ids[i] : i \in DOMAIN ids}

\* [storage.get(cls, id) for id in ids], the None left out, then the loop over
\* the places of each city found (of each city of each state found).
PlacesOfCities(ids) ==
    UNION {related("Place", "city_id", id) :
              id \in {c \in Named(ids) : storage_get("City", c).found}}

PlacesOfStates(ids) ==
    UNION {PlacesOfCities([i \in 1..1 |-> city["id"]]) :
              city \in UNION {related("City", "state_id", id) :
                                 id \in {x \in Named(ids) : storage_get("State", x).found}}}

\* all([am in place.amenities for am in amenities_obj]); None is in no list.
HasAll(place, ids) ==
    \A id \in Named(ids) :
        /\ storage_get("Amenity", id).found
        /\ contains(amenities(links, place["id"]), id)

\* search_places_by_id as it would be if one amenity of the filter sufficed.
search_places_by_id_any(body) ==
    LET q == Request("POST", "PlacesSearch", NoId, NoId, body)
        data == body.d
        states == Filter(data, "states")
        cities == Filter(data, "cities")
        wanted == Filter(data, "amenities")
        every == storage_all("Place")
        found == PlacesOfStates(states) \cup PlacesOfCities(cities)
        list_places ==
            IF wanted = <<>> THEN found
            ELSE {place \in (IF found = {} THEN every ELSE found) :
                     \E id \in Named(wanted) :
                         contains(amenities(links, place["id"]), id)}
        chosen == IF data = EmptyDict \/ (states = <<>> /\ cities = <<>> /\ wanted = <<>>)
                  THEN every ELSE list_places
        log == IF data = EmptyDict \/ (states = <<>> /\ cities = <<>> /\ wanted = <<>>)
               THEN <<"all">>
               ELSE Gets(states) \o Gets(cities)
                        \o (IF wanted # <<>> /\ found = {} THEN <<"all">> ELSE <<>>)
                        \o Gets(wanted)
    IN  IF ~body.json THEN Reply(q, BadRequest("Not a JSON"), objects, clock, uuid, <<>>)
        ELSE IF \E place \in chosen : ~to_dict(place, "Place", TRUE).ok
             THEN Reply(q, ServerError, objects, clock, uuid, log)
        ELSE Reply(q, [Response(200, "", EmptyDict) EXCEPT
                          !.list = {to_dict(place, "Place", TRUE).d : place \in chosen}],
                   objects, clock, uuid, log)

\* POST /places_search: every Place when the body names no filter; else the
\* places of the named states and cities, all places when that is none and
\* amenities are named, and of those the places that have every named amenity.
search_places_by_id(body) ==
    LET q == Request("POST", "PlacesSearch", NoId, NoId, body)
        data == body.d
        states == Filter(data, "states")
        cities == Filter(data, "cities")
        wanted == Filter(data, "amenities")
        every == storage_all("Place")
        found == PlacesOfStates(states) \cup PlacesOfCities(cities)
        list_places ==
            IF wanted = <<>> THEN found
            ELSE {place \in (IF found = {} THEN every ELSE found) : HasAll(place, wanted)}
        chosen == IF data = EmptyDict \/ (states = <<>> /\ cities = <<>> /\ wanted = <<>>)
                  THEN every ELSE list_places
        log == IF data = EmptyDict \/ (states = <<>> /\ cities = <<>> /\ wanted = <<>>)
               THEN <<"all">>
               ELSE Gets(states) \o Gets(cities)
                        \o (IF wanted # <<>> /\ found = {} THEN <<"all">> ELSE <<>>)
                        \o Gets(wanted)
    IN  IF ~body.json THEN Reply(q, BadRequest("Not a JSON"), objects, clock, uuid, <<>>)
        ELSE IF \E place \in chosen : ~to_dict(place, "Place", TRUE).ok
             THEN Reply(q, ServerError, objects, clock, uuid, log)
        ELSE Reply(q, [Response(200, "", EmptyDict) EXCEPT
                          !.list = {to_dict(place, "Place", TRUE).d : place \in chosen}],
                   objects, clock, uuid, log)

(***************************************************************************)
(* api/v1/views/places_reviews.py                                          *)
(***************************************************************************)
get_all_reviews(place_id) == ListRelated("Review", "Place", "place_id", place_id)

get_review(review_id) == GetById("Review", review_id)

del_review(review_id) == DeleteById("Review", review_id)

\* create_obj_review as it would be if the body's place_id were kept.
create_obj_review_body_place(place_id, body) ==
    LET q == Request("POST", "Review", NoId, place_id, body)
        place == storage_get("Place", place_id)
        kwargs == body.d @@ ("place_id" :> place_id)
        user == storage_get("User", kwargs["user_id"])
    IN  IF ~place.found THEN Reply(q, page_not_found, objects, clock, uuid, <<"get">>)
        ELSE IF Falsy(body)
             THEN Reply(q, BadRequest("Not a JSON"), objects, clock, uuid, <<"get">>)
        ELSE IF "user_id" \notin DOMAIN body.d
             THEN Reply(q, BadRequest("Missing user_id"), objects, clock, uuid, <<"get">>)
        ELSE IF "text" \notin DOMAIN body.d
             THEN Reply(q, BadRequest("Missing text"), objects, clock, uuid, <<"get">>)
        ELSE IF ~user.found
             THEN Reply(q, page_not_found, objects, clock, uuid, <<"get", "get">>)
        ELSE Persist(q, "Review", kwargs, EmptyDict, <<"get", "get">>)

create_obj_review(place_id, body) ==
    LET q == Request("POST", "Review", NoId, place_id, body)
        place == storage_get("Place", place_id)
        kwargs == ("place_id" :> place_id) @@ body.d
        user == storage_get("User", kwargs["user_id"])
    IN  IF ~place.found THEN Reply(q, page_not_found, objects, clock, uuid, <<"get">>)
        ELSE IF Falsy(body)
             THEN Reply(q, BadRequest("Not a JSON"), objects, clock, uuid, <<"get">>)
        ELSE IF "user_id" \notin DOMAIN body.d
             THEN Reply(q, BadRequest("Missing user_id"), objects, clock, uuid, <<"get">>)
        ELSE IF "text" \notin DOMAIN body.d
             THEN Reply(q, BadRequest("Missing text"), objects, clock, uuid, <<"get">>)
        ELSE IF ~user.found
             THEN Reply(q, page_not_found, objects, clock, uuid, <<"get", "get">>)
        ELSE Persist(q, "Review", kwargs, EmptyDict, <<"get", "get">>)

post_review(review_id, body) ==
    Update("Review", review_id, body,
           {"id", "user_id", "place_id", "created_at", "updated"})

(***************************************************************************)
(* api/v1/views/places_amenities.py                                        *)
(***************************************************************************)
\* GET /places/<place_id>/amenities
get_amenities(place_id) ==
    LET q == Request("GET", "PlaceAmenity", NoId, place_id, NotJSON)
        place == storage_get("Place", place_id)
        list == amenities(links, place_id)
        linked == {objects[Key("Amenity", list[i])] : i \in DOMAIN list}
    IN  IF ~place.found THEN Reply(q, page_not_found, objects, clock, uuid, <<"get">>)
        ELSE IF \E obj \in linked : ~to_dict(obj, "Amenity", TRUE).ok
             THEN Reply(q, ServerError, objects, clock, uuid, <<"get">>)
        ELSE Reply(q, [Response(200, "", EmptyDict) EXCEPT
                          !.list = {to_dict(obj, "Amenity", TRUE).d : obj \in linked}],
                   objects, clock, uuid, <<"get">>)

\* delete_amenity as it would be if it emptied the list of the place.
delete_amenity_clears(place_id, amenity_id) ==
    LET q == Request("DELETE", "PlaceAmenity", amenity_id, place_id, NotJSON)
        place == storage_get("Place", place_id)
        amenity == storage_get("Amenity", amenity_id)
        list == amenities(links, place_id)
        removed == with_amenities(links, place_id, <<>>)
        log == <<"get", "get", "save">>
    IN  IF ~place.found THEN Reply(q, page_not_found, objects, clock, uuid, <<"get">>)
        ELSE IF ~amenity.found
             THEN Reply(q, page_not_found, objects, clock, uuid, <<"get", "get">>)
        ELSE IF ~contains(list, amenity_id)
             THEN Reply(q, page_not_found, objects, clock, uuid, <<"get", "get">>)
        ELSE IF ~storage_save(objects)
             THEN Respond(q, ServerError, objects, removed, clock, uuid, log)
        ELSE Respond(q, Response(200, "", EmptyDict), objects, removed, clock, uuid, log)

\* DELETE /places/<place_id>/amenities/<amenity_id>
delete_amenity(place_id, amenity_id) ==
    LET q == Request("DELETE", "PlaceAmenity", amenity_id, place_id, NotJSON)
        place == storage_get("Place", place_id)
        amenity == storage_get("Amenity", amenity_id)
        list == amenities(links, place_id)
        removed == with_amenities(links, place_id, remove(list, amenity_id))
        log == <<"get", "get", "save">>
    IN  IF ~place.found THEN Reply(q, page_not_found, objects, clock, uuid, <<"get">>)
        ELSE IF ~amenity.found
             THEN Reply(q, page_not_found, objects, clock, uuid, <<"get", "get">>)
        ELSE IF ~contains(list, amenity_id)
             THEN Reply(q, page_not_found, objects, clock, uuid, <<"get", "get">>)
        ELSE IF ~storage_save(objects)
             THEN Respond(q, ServerError, objects, removed, clock, uuid, log)
        ELSE Respond(q, Response(200, "", EmptyDict), objects, removed, clock, uuid, log)

\* post_amenity2 as it would be without the test `amenity in place.amenities`.
post_amenity2_unchecked(place_id, amenity_id) ==
    LET q == Request("POST", "PlaceAmenity", amenity_id, place_id, NotJSON)
        place == storage_get("Place", place_id)
        amenity == storage_get("Amenity", amenity_id)
        list == amenities(links, place_id)
        appended == with_amenities(links, place_id, Append(list, amenity_id))
        out == to_dict(amenity.obj, "Amenity", TRUE)
        log == <<"get", "get", "save">>
    IN  /\ Len(list) < 3
        /\ IF ~place.found THEN Reply(q, page_not_found, objects, clock, uuid, <<"get">>)
           ELSE IF ~amenity.found
                THEN Reply(q, page_not_found, objects, clock, uuid, <<"get", "get">>)
           ELSE IF ~storage_save(objects) \/ ~out.ok
                THEN Respond(q, ServerError, objects, appended, clock, uuid, log)
           ELSE Respond(q, Response(201, "", out.d), objects, appended, clock, uuid, log)

\* POST /places/<place_id>/amenities/<amenity_id>
post_amenity2(place_id, amenity_id) ==
    LET q == Request("POST", "PlaceAmenity", amenity_id, place_id, NotJSON)
        place == storage_get("Place", place_id)
        amenity == storage_get("Amenity", amenity_id)
        list == amenities(links, place_id)
        appended == with_amenities(links, place_id, Append(list, amenity_id))
        out == to_dict(amenity.obj, "Amenity", TRUE)
        log == <<"get", "get", "save">>
    IN  IF ~place.found THEN Reply(q, page_not_found, objects, clock, uuid, <<"get">>)
        ELSE IF ~amenity.found
             THEN Reply(q, page_not_found, objects, clock, uuid, <<"get", "get">>)
        ELSE IF contains(list, amenity_id)
             THEN IF out.ok
                  THEN Reply(q, Response(200, "", out.d), objects, clock, uuid,
                             <<"get", "get">>)
                  ELSE Reply(q, ServerError, objects, clock, uuid, <<"get", "get">>)
        ELSE IF ~storage_save(objects) \/ ~out.ok
             THEN Respond(q, ServerError, objects, appended, clock, uuid, log)
        ELSE Respond(q, Response(201, "", out.d), objects, appended, clock, uuid, log)

(***************************************************************************)
(* api/v1/views/index.py                                                   *)
(***************************************************************************)
\* names and classes of GET /stats, paired by position.
names ==
    [amenities |-> "Amenity", cities |-> "City", places |-> "Place",
     reviews |-> "Review", states |-> "State", users |-> "User"]

\* GET /stats: object_count[names[i]] = storage.count(classes[i])
count ==
    LET q == Request("GET", "Stats", NoId, NoId, NotJSON)
        object_count == [name \in DOMAIN names |-> Num(storage_count(names[name]))]
    IN  Reply(q, Response(200, "", object_count), objects, clock, uuid,
              <<"count", "count", "count", "count", "count", "count">>)

(***************************************************************************)
(* api/v1/app.py                                                           *)
(***************************************************************************)
\* teardown_appcontext: storage.close() once the response is out.
close_db ==
    /\ phase = "responded"
    /\ phase' = "idle"
    /\ req' = NoRequest
    /\ resp' = NoResponse
    /\ calls' = <<>>
    /\ engine' = "Closed"
    /\ UNCHANGED <<objects, clock, uuid, tz, scope, links, threads>>

(***************************************************************************)
(* What reload() found at start-up: one entity of each class, written by   *)
(* an earlier run (a State, a City in it, a User, an Amenity, the User's   *)
(* Place in the City and the User's Review of the Place).                  *)
(***************************************************************************)
FixtureId ==
    [State |-> 1, City |-> 2, User |-> 3, Amenity |-> 4, Place |-> 5, Review |-> 6]

OldText == Str(<<"old">>)
NewText == Str(<<"new">>)

Stored(cls) ==
    ("id" :> IdStr(FixtureId[cls])) @@ ("created_at" :> DT(1)) @@ ("updated_at" :> DT(2))

Reloaded ==
    (Key("State", IdStr(1)) :> (("name" :> OldText) @@ Stored("State")))
    @@ (Key("City", IdStr(2)) :>
            (("name" :> OldText) @@ ("state_id" :> IdStr(1)) @@ Stored("City")))
    @@ (Key("User", IdStr(3)) :>
            (("email" :> OldText) @@ ("password" :> OldText) @@ Stored("User")))
    @@ (Key("Amenity", IdStr(4)) :> (("name" :> OldText) @@ Stored("Amenity")))
    @@ (Key("Place", IdStr(5)) :>
            (("name" :> OldText) @@ ("city_id" :> IdStr(2))
                @@ ("user_id" :> IdStr(3)) @@ Stored("Place")))
    @@ (Key("Review", IdStr(6)) :>
            (("text" :> OldText) @@ ("place_id" :> IdStr(5))
                @@ ("user_id" :> IdStr(3)) @@ Stored("Review")))

\* The Place of the earlier run was linked to its Amenity.
Linked == IdStr(5) :> <<IdStr(4)>>

NoLinks == [p \in {} |-> <<>>]

\* A second Place and a second Amenity, neither linked, that the earlier run
\* of a client of the link routes left as well.
OtherPlace == IdStr(15)
OtherAmenity == IdStr(14)

ReloadedLinkable ==
    (Key("Place", OtherPlace) :>
        [Reloaded[Key("Place", IdStr(5))] EXCEPT !["id"] = OtherPlace])
    @@ (Key("Amenity", OtherAmenity) :>
        [Reloaded[Key("Amenity", IdStr(4))] EXCEPT !["id"] = OtherAmenity])
    @@ Reloaded

\* A second parent with a child of its own, for the client of a view module
\* that lists children by parent: what the earlier run left besides.
OtherState == IdStr(11)
OtherCity == IdStr(12)
OtherReview == IdStr(16)

Other(cls, id, fks) == fks @@ [Reloaded[Key(cls, IdStr(FixtureId[cls]))] EXCEPT !["id"] = id]

\* What a client of the search finds: the State with its City and Place, a
\* second State with a City and a Place that has both amenities, and a third
\* State whose City has no Place.
EmptyState == IdStr(21)
EmptyCity == IdStr(22)

ReloadedSearchable ==
    (Key("State", OtherState) :> Other("State", OtherState, EmptyDict))
    @@ (Key("City", OtherCity) :> Other("City", OtherCity, "state_id" :> OtherState))
    @@ (Key("Place", OtherPlace) :> Other("Place", OtherPlace, "city_id" :> OtherCity))
    @@ (Key("Amenity", OtherAmenity) :> Other("Amenity", OtherAmenity, EmptyDict))
    @@ (Key("State", EmptyState) :> Other("State", EmptyState, EmptyDict))
    @@ (Key("City", EmptyCity) :> Other("City", EmptyCity, "state_id" :> EmptyState))
    @@ Reloaded

SearchLinked == (OtherPlace :> <<IdStr(4), OtherAmenity>>) @@ Linked

LinkedFor(module) == IF module = "PlacesSearch" THEN SearchLinked ELSE Linked

ReloadedFor(module) ==
    CASE module = "City" ->
            (Key("State", OtherState) :> Other("State", OtherState, EmptyDict))
            @@ (Key("City", OtherCity) :> Other("City", OtherCity, "state_id" :> OtherState))
            @@ Reloaded
      [] module = "Place" ->
            (Key("City", OtherCity) :> Other("City", OtherCity, EmptyDict))
            @@ (Key("Place", OtherPlace) :> Other("Place", OtherPlace, "city_id" :> OtherCity))
            @@ Reloaded
      [] module = "Review" ->
            (Key("Place", OtherPlace) :> Other("Place", OtherPlace, EmptyDict))
            @@ (Key("Review", OtherReview) :>
                    Other("Review", OtherReview, "place_id" :> OtherPlace))
            @@ Reloaded
      [] module = "PlaceAmenity" -> ReloadedLinkable
      [] module = "PlacesSearch" -> ReloadedSearchable
      [] OTHER -> Reloaded

\* The view modules a client may talk to: one per kind, the link routes and
\* the search.
Modules == Kinds \cup {"PlaceAmenity", "PlacesSearch"}

\* No request is in flight in another thread.
NoThreads == [t \in {} |-> ""]

(***************************************************************************)
(* The requests a client sends.                                            *)
(***************************************************************************)
\* An id that names nothing.
Nowhere == IdStr(0)

\* The fields a POST handler asks for, in the order it asks.
Required(cls) ==
    CASE cls = "User" -> <<"email", "password">>
      [] cls = "Place" -> <<"user_id", "name">>
      [] cls = "Review" -> <<"user_id", "text">>
      [] OTHER -> <<"name">>

RequiredSet(cls) == {Required(cls)[i] : i \in 1..Len(Required(cls))}

\* The foreign keys of a class.
ForeignKeys(cls) ==
    CASE cls = "City" -> {"state_id"}
      [] cls = "Place" -> {"city_id", "user_id"}
      [] cls = "Review" -> {"place_id", "user_id"}
      [] OTHER -> {}

\* The class a child is created under, and the key that names it.
Parent(cls) ==
    CASE cls = "City" -> "State" [] cls = "Place" -> "City" [] cls = "Review" -> "Place"
      [] OTHER -> ""

ParentKey(cls) ==
    CASE cls = "City" -> "state_id" [] cls = "Place" -> "city_id"
      [] cls = "Review" -> "place_id" [] OTHER -> ""

\* A field a PUT may change.
Mutable(cls) ==
    CASE cls = "User" -> "first_name" [] cls = "Review" -> "text" [] OTHER -> "name"

\* Timestamps as a client writes them: in the format, not in it, not a string.
GoodStamp == Str(strftime(DT(1)))
BadStamp == Str(<<"yesterday">>)
NumStamp == Num(5)

FieldValues(k) == IF k = "user_id" THEN {IdStr(FixtureId["User"]), Nowhere} ELSE {OldText}

\* Every way of giving some of the required fields.
Fields(cls) ==
    UNION {{f \in [S -> {IdStr(FixtureId["User"]), Nowhere, OldText}] :
                \A k \in S : f[k] \in FieldValues(k)} : S \in SUBSET RequiredSet(cls)}

\* One more key a body may carry.
PostExtras(cls) ==
    {EmptyDict,
     "id" :> IdStr(FixtureId[cls]),
     "created_at" :> GoodStamp,
     "created_at" :> BadStamp,
     "created_at" :> NumStamp,
     "updated_at" :> GoodStamp,
     "__class__" :> Str(<<"Other">>)}
    \cup {ParentKey(cls) :> Nowhere : x \in {cls} \cap {"City", "Place", "Review"}}

PostBodies(cls) ==
    {NotJSON} \cup {Json(e @@ f) : e \in PostExtras(cls), f \in Fields(cls)}

PutKeys(cls) ==
    {Mutable(cls) :> NewText,
     "id" :> Nowhere,
     "created_at" :> GoodStamp,
     "updated_at" :> GoodStamp}
    \cup {k :> Nowhere : k \in ForeignKeys(cls)}
    \cup {k :> NewText : k \in {"email", "password"} \cap RequiredSet(cls)}

PutBodies(cls) ==
    {NotJSON, Json(EmptyDict)}
    \cup {Json(e) : e \in PutKeys(cls)}
    \cup {Json(e @@ (Mutable(cls) :> NewText)) : e \in PutKeys(cls)}

\* The ids a client puts in the URL of a `cls` route: the one it knows from
\* before, the ones this run generated, and one that names nothing.
UrlIds(cls) ==
    {IdStr(FixtureId[cls]), Nowhere}
    \cup {IdStr(k) : k \in (Cardinality(Kinds) + 1)..uuid}

ParentIds(cls) == {IdStr(FixtureId[Parent(cls)]), Nowhere}

\* The parent ids in the URL of a list route: the other parent as well.
ListParentIds(cls) ==
    ParentIds(cls)
    \cup (CASE cls = "City" -> {OtherState} [] cls = "Place" -> {OtherCity}
            [] cls = "Review" -> {OtherPlace})

\* The server's local time is UTC or ahead of it.
TZOffsets == {0, 3}

Init ==
    /\ scope \in Modules
    /\ objects = ReloadedFor(scope)
    /\ clock = 3
    /\ uuid = Cardinality(Kinds)
    /\ tz \in TZOffsets
    /\ phase = "idle"
    /\ req = NoRequest
    /\ resp = NoResponse
    /\ calls = <<>>
    /\ links = LinkedFor(scope)
    /\ engine = "Ready"
    /\ threads = NoThreads

\* A client of the `cls` view module may send its next request.
Client(cls) == phase = "idle" /\ scope = cls

States ==
    \/ Client("State") /\ \E id \in UrlIds("State") : get_method_state(id)
    \/ Client("State") /\ \E id \in UrlIds("State") : del_method(id)
    \/ Client("State") /\ \E body \in PostBodies("State") : create_obj(body)
    \/ Client("State") /\ \E id \in UrlIds("State"), body \in PutBodies("State") :
           post_method(id, body)

Cities ==
    \/ Client("City") /\ \E sid \in ListParentIds("City") : get_cities(sid)
    \/ Client("City") /\ \E id \in UrlIds("City") : get_city(id)
    \/ Client("City") /\ \E id \in UrlIds("City") : del_city(id)
    \/ Client("City") /\ \E sid \in ParentIds("City"), body \in PostBodies("City") :
           create_obj_city(sid, body)
    \/ Client("City") /\ \E id \in UrlIds("City"), body \in PutBodies("City") :
           post_city(id, body)

Amenities ==
    \/ Client("Amenity") /\ \E id \in UrlIds("Amenity") : get_amenity(id)
    \/ Client("Amenity") /\ \E id \in UrlIds("Amenity") : del_amenity(id)
    \/ Client("Amenity") /\ \E body \in PostBodies("Amenity") : create_obj_amenity(body)
    \/ Client("Amenity") /\ \E id \in UrlIds("Amenity"), body \in PutBodies("Amenity") :
           post_amenity(id, body)

Users ==
    \/ Client("User") /\ get_all_users
    \/ Client("User") /\ \E id \in UrlIds("User") : get_user(id)
    \/ Client("User") /\ \E id \in UrlIds("User") : del_user(id)
    \/ Client("User") /\ \E body \in PostBodies("User") : create_obj_user(body)
    \/ Client("User") /\ \E id \in UrlIds("User"), body \in PutBodies("User") :
           post_user(id, body)

Places ==
    \/ Client("Place") /\ \E cid \in ListParentIds("Place") : get_all_places(cid)
    \/ Client("Place") /\ \E id \in UrlIds("Place") : get_place(id)
    \/ Client("Place") /\ \E id \in UrlIds("Place") : del_place(id)
    \/ Client("Place") /\ \E cid \in ParentIds("Place"), body \in PostBodies("Place") :
           create_obj_place(cid, body)
    \/ Client("Place") /\ \E id \in UrlIds("Place"), body \in PutBodies("Place") :
           post_place(id, body)

Reviews ==
    \/ Client("Review") /\ \E pid \in ListParentIds("Review") : get_all_reviews(pid)
    \/ Client("Review") /\ \E id \in UrlIds("Review") : get_review(id)
    \/ Client("Review") /\ \E id \in UrlIds("Review") : del_review(id)
    \/ Client("Review") /\ \E pid \in ParentIds("Review"), body \in PostBodies("Review") :
           create_obj_review(pid, body)
    \/ Client("Review") /\ \E id \in UrlIds("Review"), body \in PutBodies("Review") :
           post_review(id, body)

\* The ids a client of the link routes puts in the URL.
LinkPlaces == {IdStr(5), OtherPlace, Nowhere}
LinkAmenities == {IdStr(4), OtherAmenity, Nowhere}

PlacesAmenities ==
    \/ Client("PlaceAmenity") /\ \E pid \in LinkPlaces : get_amenities(pid)
    \/ Client("PlaceAmenity") /\ \E pid \in LinkPlaces, aid \in LinkAmenities :
           delete_amenity(pid, aid)
    \/ Client("PlaceAmenity") /\ \E pid \in LinkPlaces, aid \in LinkAmenities :
           post_amenity2(pid, aid)

\* The lists a client of the search gives under a key.
SearchLists(key) ==
    CASE key = "states" ->
            {<<>>, <<IdStr(1)>>, <<EmptyState>>, <<IdStr(1), OtherState>>, <<Nowhere>>}
      [] key = "cities" ->
            {<<>>, <<IdStr(2)>>, <<EmptyCity>>, <<IdStr(2), OtherCity>>, <<Nowhere>>}
      [] key = "amenities" ->
            {<<>>, <<IdStr(4)>>, <<OtherAmenity>>, <<IdStr(4), OtherAmenity>>,
             <<IdStr(4), Nowhere>>, <<Nowhere>>}

SearchBodies ==
    {NotJSON}
    \cup UNION {{Json(f) : f \in {g \in [S -> UNION {SearchLists(k) : k \in S}] :
                                      \A k \in S : g[k] \in SearchLists(k)}} :
                   S \in SUBSET {"states", "cities", "amenities"}}

PlacesSearch == Client("PlacesSearch") /\ \E body \in SearchBodies : search_places_by_id(body)

\* GET /stats is open to the client of any view module.
Index == phase = "idle" /\ count

Next ==
    \/ States \/ Cities \/ Amenities \/ Users \/ Places \/ Reviews
    \/ PlacesAmenities \/ PlacesSearch \/ Index \/ close_db

Spec == Init /\ [][Next]_vars

(***************************************************************************)
(* The round trip of an entity through its mapping.                        *)
(***************************************************************************)
\* The instants at which the round trip is tried (all in one minute).
Instants == {0, 9, 10, 123456, 999999, 1000000, 59999990}

\* Attributes handed to a constructor: none, an id, timestamps as text in the
\* format (full, short fraction, one-digit seconds), a timestamp that is a
\* number, a password, a name and the discriminator.
ConstructorKwargs ==
    {EmptyDict,
     "id" :> IdStr(1),
     "name" :> OldText,
     ("password" :> OldText) @@ ("email" :> OldText),
     "created_at" :> GoodStamp,
     "updated_at" :> Str(<<time, "0", "5", ".", "5">>),
     ("created_at" :> Str(<<time, "7", ".", "0", "1">>)) @@ ("name" :> NewText),
     "created_at" :> NumStamp,
     ("__class__" :> Str(<<"Other">>)) @@ ("name" :> OldText)}

\* obj = cls(**kwargs); storage.new(obj)
construct(cls, kwargs) ==
    LET made == BaseModel_init(kwargs, IdStr(uuid + 1), DT(clock + tz))
    IN  /\ phase = "idle"
        /\ uuid < MaxNew
        /\ made.ok
        /\ objects' = storage_new(objects, cls, made.self)
        /\ uuid' = uuid + 1
        /\ UNCHANGED <<clock, tz, scope, phase, req, resp, calls, links, engine, threads>>

\* obj.save() at a later instant.
save_later(key, at) ==
    /\ phase = "idle"
    /\ at > clock
    /\ objects' = save(objects, key[1], objects[key], DT(at)).objs
    /\ clock' = at
    /\ UNCHANGED <<uuid, tz, scope, phase, req, resp, calls, links, engine, threads>>

\* cls(**obj.to_dict(secure_pwd=False)): the outcome is kept as a response,
\* 500 when either step raises.
round_trip(key) ==
    LET mapping == to_dict(objects[key], key[1], FALSE)
        again == BaseModel_init(mapping.d, IdStr(uuid + 1), DT(clock + tz))
    IN  /\ phase = "idle"
        /\ phase' = "responded"
        /\ req' = Request("ROUNDTRIP", key[1], key[2], NoId, Json(mapping.d))
        /\ resp' = IF mapping.ok /\ again.ok THEN Response(200, "", again.self)
                                              ELSE ServerError
        /\ calls' = <<>>
        /\ UNCHANGED <<objects, clock, uuid, tz, scope, links, engine, threads>>

InitRoundTrip ==
    /\ objects = [key \in {} |-> EmptyDict]
    /\ clock \in Instants
    /\ uuid = 0
    /\ tz \in TZOffsets
    /\ scope \in Kinds
    /\ phase = "idle"
    /\ req = NoRequest
    /\ resp = NoResponse
    /\ calls = <<>>
    /\ links = NoLinks
    /\ engine = "Ready"
    /\ threads = NoThreads

Construct == \E kwargs \in ConstructorKwargs : construct(scope, kwargs)

SaveLater == \E key \in DOMAIN objects, at \in Instants : save_later(key, at)

RoundTrip == \E key \in DOMAIN objects : round_trip(key)

NextRoundTrip == Construct \/ SaveLater \/ RoundTrip \/ close_db

SpecRoundTrip == InitRoundTrip /\ [][NextRoundTrip]_vars

(***************************************************************************)
(* Properties.                                                             *)
(***************************************************************************)
\* A step in which a handler answers a request: req' and resp' are the
\* request and its response, objects the identity map before, objects' after.
Handling == phase = "idle" /\ phase' = "responded"

Resident(objs, cls, id) == Key(cls, id) \in DOMAIN objs

\* The kinds created under a parent.
Children == {"City", "Place", "Review"}

\* "Missing <field>"
MissingMsg(f) ==
    CASE f = "name" -> "Missing name"
      [] f = "email" -> "Missing email"
      [] f = "password" -> "Missing password"
      [] f = "user_id" -> "Missing user_id"
      [] f = "text" -> "Missing text"

\* The entity's timestamps are datetimes.
WellTyped(self) == \A k \in DOMAIN self : IsTimestampKey(k) => self[k].ty = "datetime"

\* C1: a POST to /states with a JSON object that has a name answers 201 with
\* that name and an id; a GET of a resident State answers 200 with its name; a
\* DELETE of a resident State answers 200 with {} and the State is gone; a GET
\* of a State that is not resident answers 404, and a State only comes back
\* through a POST.
C1_StateLifecycle ==
    [][(Handling /\ req'.cls = "State") =>
        /\ (req'.method = "POST" /\ req'.body.json /\ "name" \in DOMAIN req'.body.d) =>
              /\ resp'.status = 201
              /\ "id" \in DOMAIN resp'.body
              /\ "name" \in DOMAIN resp'.body
              /\ resp'.body["name"] = req'.body.d["name"]
        /\ (req'.method = "GET" /\ Resident(objects, "State", req'.id)) =>
              /\ resp'.status = 200
              /\ resp'.body["name"] = objects[Key("State", req'.id)]["name"]
        /\ (req'.method = "DELETE" /\ Resident(objects, "State", req'.id)) =>
              /\ resp'.status = 200
              /\ resp'.body = EmptyDict
              /\ ~Resident(objects', "State", req'.id)
        /\ (req'.method = "GET" /\ ~Resident(objects, "State", req'.id)) =>
              resp' = page_not_found
        /\ (DOMAIN objects' \ DOMAIN objects # {}) => req'.method = "POST"
      ]_vars

\* C2: for each of the six kinds a GET by id answers 404 exactly when the
\* identity map has no entity of that kind with that id, and otherwise 200
\* with the entity's serialization; the identity map is left as it was.
C2_GetById ==
    [][(Handling /\ req'.method = "GET" /\ req'.id # NoId) =>
        /\ resp'.status = 404 <=> ~Resident(objects, req'.cls, req'.id)
        /\ Resident(objects, req'.cls, req'.id) =>
              /\ resp'.status = 200
              /\ to_dict(objects[Key(req'.cls, req'.id)], req'.cls, TRUE).ok
              /\ resp'.body = to_dict(objects[Key(req'.cls, req'.id)], req'.cls, TRUE).d
        /\ objects' = objects
      ]_vars

\* C3: a POST whose body is a JSON object lacking a required field of the kind
\* (the object with no keys included), the parent being resident, answers 400
\* with "Missing <field>" for a field it lacks, and creates nothing.
C3_PostMissingField ==
    [][(/\ Handling
        /\ req'.method = "POST"
        /\ req'.body.json
        /\ RequiredSet(req'.cls) \ DOMAIN req'.body.d # {}
        /\ req'.cls \in Children => Resident(objects, Parent(req'.cls), req'.parent)) =>
        /\ resp'.status = 400
        /\ \E f \in RequiredSet(req'.cls) \ DOMAIN req'.body.d : resp'.error = MissingMsg(f)
        /\ objects' = objects
        /\ uuid' = uuid
      ]_vars

\* C4: a PUT never changes the id, created_at, updated_at or a foreign key of
\* the entity it addresses.
C4_PutProtectedKeys ==
    [][(/\ Handling
        /\ req'.method = "PUT"
        /\ Resident(objects, req'.cls, req'.id)
        /\ Resident(objects', req'.cls, req'.id)) =>
        \A k \in {"id", "created_at", "updated_at"} \cup ForeignKeys(req'.cls) :
            LET old == objects[Key(req'.cls, req'.id)]
                new == objects'[Key(req'.cls, req'.id)]
            IN  /\ k \in DOMAIN new <=> k \in DOMAIN old
                /\ k \in DOMAIN old => new[k] = old[k]
      ]_vars

\* C5: a PUT to an id that is not resident answers 404 whatever the body is,
\* and changes nothing.
C5_PutAbsent ==
    [][(/\ Handling
        /\ req'.method = "PUT"
        /\ ~Resident(objects, req'.cls, req'.id)) =>
        /\ resp' = page_not_found
        /\ objects' = objects
      ]_vars

\* C6: a DELETE of an id that is not resident answers 404 and changes nothing;
\* a DELETE of a resident entity calls delete() then storage.save(), answers
\* 200 with {}, and the entity is gone, so that a second DELETE answers 404.
C6_Delete ==
    [][(Handling /\ req'.method = "DELETE" /\ req'.cls \in Kinds) =>
        /\ ~Resident(objects, req'.cls, req'.id) =>
              /\ resp' = page_not_found
              /\ objects' = objects
        /\ Resident(objects, req'.cls, req'.id) =>
              /\ calls' = <<"get", "delete", "save">>
              /\ resp'.status = 200
              /\ resp'.body = EmptyDict
              /\ DOMAIN objects' = DOMAIN objects \ {Key(req'.cls, req'.id)}
      ]_vars

\* C7: a POST of a City, Place or Review under a parent that is not resident
\* answers 404 whatever the body is, not 400, and creates nothing.
C7_PostAbsentParent ==
    [][(/\ Handling
        /\ req'.method = "POST"
        /\ req'.cls \in Children
        /\ ~Resident(objects, Parent(req'.cls), req'.parent)) =>
        /\ resp' = page_not_found
        /\ objects' = objects
        /\ uuid' = uuid
        /\ \A i \in DOMAIN calls' : calls'[i] \notin {"new", "save"}
      ]_vars

C7_Witness ==
    /\ phase = "responded"
    /\ req.method = "POST"
    /\ req.cls = "City"
    /\ ~Resident(objects, "State", req.parent)
    /\ ~req.body.json
    /\ resp.status = 404

\* C8: a POST of a Place or Review whose body has every required field but
\* whose user_id names no resident User answers 404; nothing is constructed,
\* registered or saved.
C8_PostAbsentUser ==
    [][(/\ Handling
        /\ req'.method = "POST"
        /\ req'.cls \in {"Place", "Review"}
        /\ req'.body.json
        /\ RequiredSet(req'.cls) \subseteq DOMAIN req'.body.d
        /\ ~Resident(objects, "User", req'.body.d["user_id"])) =>
        /\ resp' = page_not_found
        /\ objects' = objects
        /\ uuid' = uuid
        /\ \A i \in DOMAIN calls' : calls'[i] \notin {"new", "save"}
      ]_vars

C8_Witness ==
    /\ phase = "responded"
    /\ req.method = "POST"
    /\ req.cls = "Place"
    /\ Resident(objects, "City", req.parent)
    /\ req.body.json
    /\ RequiredSet("Place") \subseteq DOMAIN req.body.d
    /\ ~Resident(objects, "User", req.body.d["user_id"])
    /\ resp.status = 404

\* C9: the secure mapping of a User never has a password key, the mapping with
\* secure_pwd=False has it when the User has one, and no response of the users
\* routes (an entity or a list of entities) has a password key.
C9_PasswordMasked ==
    /\ \A key \in DOMAIN objects :
          key[1] = "User" =>
             /\ "password" \notin DOMAIN to_dict(objects[key], "User", TRUE).d
             /\ ("password" \in DOMAIN objects[key] /\ WellTyped(objects[key])) =>
                   "password" \in DOMAIN to_dict(objects[key], "User", FALSE).d
    /\ (phase = "responded" /\ req.cls = "User") =>
          /\ "password" \notin DOMAIN resp.body
          /\ \A d \in resp.list : "password" \notin DOMAIN d

C9_Witness ==
    /\ phase = "responded"
    /\ req.cls = "User"
    /\ req.method = "POST"
    /\ resp.status = 201
    /\ Resident(objects, "User", resp.body["id"])
    /\ "password" \in DOMAIN objects[Key("User", resp.body["id"])]
    /\ "password" \notin DOMAIN resp.body

NoDuplicate(list) == \A i, j \in DOMAIN list : list[i] = list[j] => i = j

ChildrenOf(objs, cls, parent_id) ==
    {objs[key] : key \in {k \in DOMAIN objs :
        /\ k[1] = cls
        /\ ParentKey(cls) \in DOMAIN objs[k]
        /\ objs[k][ParentKey(cls)] = parent_id}}

\* C13: the list a GET of the children of a parent returns is exactly the
\* serialization of the resident children whose foreign key is the parent's
\* id (404 when the parent is absent); a child is resident under its parent
\* from the POST that answers 201 on, and no longer resident after the
\* DELETE that answers 200.
C13_ViewFresh ==
    [][(Handling /\ req'.cls \in Children) =>
        /\ (req'.method = "GET" /\ req'.id = NoId) =>
              /\ ~Resident(objects, Parent(req'.cls), req'.parent) => resp' = page_not_found
              /\ resp'.status = 200 =>
                    /\ Resident(objects, Parent(req'.cls), req'.parent)
                    /\ resp'.list =
                         {to_dict(obj, req'.cls, TRUE).d :
                             obj \in ChildrenOf(objects', req'.cls, req'.parent)}
              /\ objects' = objects
        /\ (req'.method = "POST" /\ resp'.status = 201) =>
              /\ Resident(objects', req'.cls, resp'.body["id"])
              /\ objects'[Key(req'.cls, resp'.body["id"])]
                     \in ChildrenOf(objects', req'.cls, req'.parent)
        /\ (req'.method = "DELETE" /\ resp'.status = 200) =>
              ~Resident(objects', req'.cls, req'.id)
      ]_vars

\* The places of the City are listed after one was created under it: the
\* list has the old and the new Place and not the Place of the other City.
C13_Witness ==
    /\ phase = "responded"
    /\ req.method = "GET"
    /\ req.cls = "Place"
    /\ req.id = NoId
    /\ resp.status = 200
    /\ Cardinality(resp.list) = 2
    /\ Resident(objects, "Place", OtherPlace)
    /\ \A d \in resp.list : d["id"] # OtherPlace

\* C14: every resident entity whose timestamps are datetimes has
\* updated_at >= created_at.
C14_TimestampOrder ==
    \A key \in DOMAIN objects :
        (objects[key]["created_at"].ty = "datetime"
            /\ objects[key]["updated_at"].ty = "datetime")
        => objects[key]["updated_at"].n >= objects[key]["created_at"].n

\* C15: after a PUT that answers 200 the entity's updated_at is the time of
\* that PUT: a datetime not earlier than the clock the request arrived at,
\* and not the value the entity had before.
C15_PutStamps ==
    [][(Handling /\ req'.method = "PUT" /\ req'.cls \in Kinds /\ resp'.status = 200) =>
        LET key == Key(req'.cls, req'.id)
        IN  /\ key \in DOMAIN objects'
            /\ objects'[key]["updated_at"].ty = "datetime"
            /\ objects'[key]["updated_at"].n >= clock
            /\ objects'[key]["updated_at"] # objects[key]["updated_at"]
      ]_vars

\* C16: a request invokes get, all, new, save, delete or count on the engine
\* only while the engine is Ready: never before reload and never after the
\* teardown hook has called close().
C16_EngineLifecycle ==
    [][(Handling /\ calls' # <<>>) => engine = "Ready"]_vars

\* C17: every resident City's state_id names a resident State, and every
\* resident Place's city_id and user_id name a resident City and a resident
\* User.
C17_ReferentialIntegrity ==
    \A key \in DOMAIN objects :
        /\ key[1] = "City" => Resident(objects, "State", objects[key]["state_id"])
        /\ key[1] = "Place" =>
              /\ Resident(objects, "City", objects[key]["city_id"])
              /\ Resident(objects, "User", objects[key]["user_id"])

\* The number of resident entities of a kind.
CountOf(objs, cls) == Cardinality({k \in DOMAIN objs : k[1] = cls})

\* C18: a POST that answers 201 leaves one more resident entity of its kind
\* and every entity that was resident before it resident and unchanged,
\* whatever the body carries.
C18_PostAddsOne ==
    [][(Handling /\ req'.method = "POST" /\ req'.cls \in Kinds /\ resp'.status = 201) =>
        /\ CountOf(objects', req'.cls) = CountOf(objects, req'.cls) + 1
        /\ \A key \in DOMAIN objects :
              key \in DOMAIN objects' /\ objects'[key] = objects[key]
      ]_vars

\* What GET /stats is to return for an identity map: under each of the six
\* keys the number of resident entities of the matching kind.
StatsOf(objs) ==
    [amenities |-> Num(CountOf(objs, "Amenity")), cities |-> Num(CountOf(objs, "City")),
     places |-> Num(CountOf(objs, "Place")), reviews |-> Num(CountOf(objs, "Review")),
     states |-> Num(CountOf(objs, "State")), users |-> Num(CountOf(objs, "User"))]

\* A request that answered with the status, on the kind.
Answered(method, cls, status) ==
    /\ req'.method = method
    /\ req'.cls = cls
    /\ resp'.status = status

\* C19: GET /stats answers 200 with the number of resident entities of each
\* kind under its key, and that number is the successful POSTs of the kind
\* less its successful DELETEs: a request changes the number of a kind by one
\* up when it is a POST of the kind that answers 201, by one down when it is
\* a DELETE of the kind that answers 200, and not at all otherwise (a POST
\* whose body carries an id is left aside: the id may be reused).
C19_StatsCount ==
    [][Handling =>
        /\ req'.cls = "Stats" => (resp'.status = 200 /\ resp'.body = StatsOf(objects'))
        /\ ~(req'.method = "POST" /\ "id" \in DOMAIN req'.body.d) =>
              \A cls \in Kinds :
                  CountOf(objects', cls) =
                      CountOf(objects, cls)
                          + (IF Answered("POST", cls, 201) THEN 1 ELSE 0)
                          - (IF Answered("DELETE", cls, 200) THEN 1 ELSE 0)
      ]_vars

(***************************************************************************)
(* Requests handled by threads (app.run(..., threaded=True)): every request *)
(* thread runs post_amenity2 statement by statement on the process-wide     *)
(* engine, and nothing keeps two threads from being anywhere in it at once. *)
(***************************************************************************)
Threads == {"thread-1", "thread-2"}

\* A thread that has no request yet.
Waiting == [pc |-> "accept", place_id |-> NoId, amenity_id |-> NoId, status |-> 0]

\* The thread goes to a statement, with a status once it has one.
Goto(t, pc, status) ==
    /\ threads' = [threads EXCEPT ![t].pc = pc, ![t].status = status]
    /\ UNCHANGED <<objects, clock, uuid, tz, scope, phase, req, resp, calls>>

\* The route matches: POST /places/<place_id>/amenities/<amenity_id>
post_amenity2_route(t, place_id, amenity_id) ==
    /\ threads[t].pc = "accept"
    /\ threads' = [threads EXCEPT ![t] = [pc |-> "get_place", place_id |-> place_id,
                                          amenity_id |-> amenity_id, status |-> 0]]
    /\ UNCHANGED <<objects, clock, uuid, tz, scope, phase, req, resp, calls, links, engine>>

\* place = storage.get(Place, place_id); abort(404) when None
post_amenity2_place(t) ==
    /\ threads[t].pc = "get_place"
    /\ IF storage_get("Place", threads[t].place_id).found
       THEN Goto(t, "get_amenity", 0)
       ELSE Goto(t, "teardown", 404)
    /\ UNCHANGED <<links, engine>>

\* amenity = storage.get(Amenity, amenity_id); abort(404) when None
post_amenity2_amenity(t) ==
    /\ threads[t].pc = "get_amenity"
    /\ IF storage_get("Amenity", threads[t].amenity_id).found
       THEN Goto(t, "check", 0)
       ELSE Goto(t, "teardown", 404)
    /\ UNCHANGED <<links, engine>>

\* if amenity in place.amenities: return ..., 200
post_amenity2_check(t) ==
    /\ threads[t].pc = "check"
    /\ IF contains(amenities(links, threads[t].place_id), threads[t].amenity_id)
       THEN Goto(t, "teardown", 200)
       ELSE Goto(t, "append", 0)
    /\ UNCHANGED <<links, engine>>

\* place.amenities.append(amenity)
post_amenity2_append(t) ==
    /\ threads[t].pc = "append"
    /\ links' = with_amenities(links, threads[t].place_id,
                    Append(amenities(links, threads[t].place_id), threads[t].amenity_id))
    /\ Goto(t, "save", 0)
    /\ UNCHANGED engine

\* storage.save(); return jsonify(amenity.to_dict()), 201
post_amenity2_save(t) ==
    /\ threads[t].pc = "save"
    /\ IF storage_save(objects)
       THEN Goto(t, "teardown", 201)
       ELSE Goto(t, "teardown", 500)
    /\ UNCHANGED <<links, engine>>

\* teardown_appcontext of the thread's request: storage.close()
close_db_thread(t) ==
    /\ threads[t].pc = "teardown"
    /\ engine' = "Closed"
    /\ Goto(t, "done", threads[t].status)
    /\ UNCHANGED links

\* The Place of the fixture has its Amenity linked; the other Place and the
\* other Amenity are resident and not linked.
InitConcurrent ==
    /\ scope = "PlaceAmenity"
    /\ objects = ReloadedLinkable
    /\ clock = 3
    /\ uuid = Cardinality(Kinds)
    /\ tz \in TZOffsets
    /\ phase = "idle"
    /\ req = NoRequest
    /\ resp = NoResponse
    /\ calls = <<>>
    /\ links = Linked
    /\ engine = "Ready"
    /\ threads = [t \in Threads |-> Waiting]

NextConcurrent ==
    \E t \in Threads :
        \/ \E place_id \in LinkPlaces, amenity_id \in LinkAmenities :
              post_amenity2_route(t, place_id, amenity_id)
        \/ post_amenity2_place(t)
        \/ post_amenity2_amenity(t)
        \/ post_amenity2_check(t)
        \/ post_amenity2_append(t)
        \/ post_amenity2_save(t)
        \/ close_db_thread(t)

SpecConcurrent == InitConcurrent /\ [][NextConcurrent]_vars

\* C20: however the statements of two link requests interleave, no Place has
\* the same Amenity linked twice: two requests for the same pair leave exactly
\* one link.
C20_ConcurrentLinkOnce ==
    \A place_id \in DOMAIN links : NoDuplicate(links[place_id])

(***************************************************************************)
(* Request threads in del_amenity (api/v1/views/amenities.py), statement   *)
(* by statement on the process-wide engine.                                *)
(***************************************************************************)
\* The route matches: DELETE /amenities/<amenity_id>
del_amenity_route(t, amenity_id) ==
    /\ threads[t].pc = "accept"
    /\ threads' = [threads EXCEPT ![t] = [pc |-> "get", place_id |-> NoId,
                                          amenity_id |-> amenity_id, status |-> 0]]
    /\ UNCHANGED <<objects, clock, uuid, tz, scope, phase, req, resp, calls, links, engine>>

\* amenity = storage.get(Amenity, amenity_id); abort(404) when None
del_amenity_get(t) ==
    /\ threads[t].pc = "get"
    /\ IF storage_get("Amenity", threads[t].amenity_id).found
       THEN Goto(t, "delete", 0)
       ELSE Goto(t, "teardown", 404)
    /\ UNCHANGED <<links, engine>>

\* amenity.delete() as it would be if the engine raised on an entity that is
\* not in the identity map.
del_amenity_delete_raising(t) ==
    /\ threads[t].pc = "delete"
    /\ IF Resident(objects, "Amenity", threads[t].amenity_id)
       THEN /\ objects' = delete(objects, "Amenity", [id |-> threads[t].amenity_id])
            /\ links' = storage_delete_links(links, "Amenity", threads[t].amenity_id)
            /\ threads' = [threads EXCEPT ![t].pc = "save"]
       ELSE /\ threads' = [threads EXCEPT ![t].pc = "teardown", ![t].status = 500]
            /\ UNCHANGED <<objects, links>>
    /\ UNCHANGED <<clock, uuid, tz, scope, phase, req, resp, calls, engine>>

\* amenity.delete(): storage.delete(self), on the instance the thread holds.
del_amenity_delete(t) ==
    /\ threads[t].pc = "delete"
    /\ objects' = delete(objects, "Amenity", [id |-> threads[t].amenity_id])
    /\ links' = storage_delete_links(links, "Amenity", threads[t].amenity_id)
    /\ threads' = [threads EXCEPT ![t].pc = "save"]
    /\ UNCHANGED <<clock, uuid, tz, scope, phase, req, resp, calls, engine>>

\* storage.save(); return jsonify({})
del_amenity_save(t) ==
    /\ threads[t].pc = "save"
    /\ IF storage_save(objects)
       THEN Goto(t, "teardown", 200)
       ELSE Goto(t, "teardown", 500)
    /\ UNCHANGED <<links, engine>>

NextConcurrentDelete ==
    \E t \in Threads :
        \/ \E amenity_id \in LinkAmenities : del_amenity_route(t, amenity_id)
        \/ del_amenity_get(t)
        \/ del_amenity_delete(t)
        \/ del_amenity_save(t)
        \/ close_db_thread(t)

SpecConcurrentDelete == InitConcurrent /\ [][NextConcurrentDelete]_vars

\* C21: a thread that is past amenity.delete() has raised nothing (its status
\* is never 500) and the Amenity is absent, also when the other thread removed
\* it first; a request that found the Amenity answers 200.
C21_DeleteIdempotent ==
    \A t \in Threads :
        /\ threads[t].status # 500
        /\ threads[t].pc \in {"save", "teardown", "done"} =>
              ~Resident(objects, "Amenity", threads[t].amenity_id)
        /\ threads[t].pc = "done" => threads[t].status \in {200, 404}

\* Both threads found the same Amenity, both deleted it and both answered 200.
C21_Witness ==
    /\ \A t \in Threads : threads[t].pc = "done" /\ threads[t].status = 200
    /\ \A t, u \in Threads : threads[t].amenity_id = threads[u].amenity_id
    /\ \A t \in Threads : ~Resident(objects, "Amenity", threads[t].amenity_id)

\* C22: save() stamps, registers and flushes, in this order: after a POST in
\* which obj.save() returned (the POST answers 201) the engine has the
\* instance under its kind and id with updated_at the time of the save, the
\* instance is the one the response serializes, new was called before save,
\* and the flush that followed serialized a map that holds it.
C22_SaveOrder ==
    [][(Handling /\ req'.method = "POST" /\ req'.cls \in Kinds /\ resp'.status = 201) =>
        LET key == Key(req'.cls, resp'.body["id"])
        IN  /\ key \in DOMAIN objects'
            /\ objects'[key]["updated_at"] = DT(clock + 1)
            /\ to_dict(objects'[key], req'.cls, TRUE).d = resp'.body
            /\ Len(calls') >= 2
            /\ SubSeq(calls', Len(calls') - 1, Len(calls')) = <<"new", "save">>
            /\ storage_save(objects')
      ]_vars

\* A State was created by a POST: save() returned and the State is resident
\* under the generated id.
C22_Witness ==
    /\ phase = "responded"
    /\ req.method = "POST"
    /\ req.cls = "State"
    /\ resp.status = 201
    /\ "id" \notin DOMAIN req.body.d
    /\ Resident(objects, "State", resp.body["id"])
    /\ resp.body["id"] # IdStr(FixtureId["State"])

\* C23: a child created by a POST under a parent URL is stored and returned
\* with the URL's parent id as its foreign key, also when the body gives
\* another value for that key.
C23_ForeignKeyFromUrl ==
    [][(Handling /\ req'.method = "POST" /\ req'.cls \in Children /\ resp'.status = 201) =>
        LET key == Key(req'.cls, resp'.body["id"])
            fk == ParentKey(req'.cls)
        IN  /\ key \in DOMAIN objects'
            /\ objects'[key][fk] = req'.parent
            /\ resp'.body[fk] = req'.parent
            /\ Resident(objects', Parent(req'.cls), req'.parent)
      ]_vars

\* A Review was created under a Place by a body that names another place_id.
C23_Witness ==
    /\ phase = "responded"
    /\ req.method = "POST"
    /\ req.cls = "Review"
    /\ resp.status = 201
    /\ "place_id" \in DOMAIN req.body.d
    /\ req.body.d["place_id"] # req.parent
    /\ objects[Key("Review", resp.body["id"])]["place_id"] = req.parent

\* C24: a request that answers 400 or 404 leaves the identity map, every
\* entity and every link as they were, and calls neither storage.new nor
\* storage.delete nor storage.save.
C24_ErrorLeavesState ==
    [][(Handling /\ resp'.status \in {400, 404}) =>
        /\ objects' = objects
        /\ links' = links
        /\ \A i \in DOMAIN calls' : calls'[i] \notin {"new", "delete", "save"}
      ]_vars

\* A POST of a Place was refused with 404 for its user_id, after the look-up
\* of the City and of the User, in a run that had created an entity before.
C24_Witness ==
    /\ phase = "responded"
    /\ req.method = "POST"
    /\ req.cls = "Place"
    /\ resp = page_not_found
    /\ calls = <<"get", "get">>
    /\ uuid > Cardinality(Kinds)

\* A search that answered with a list.
Searched ==
    /\ Handling
    /\ req'.cls = "PlacesSearch"
    /\ resp'.status = 200

\* The place of a serialization is in a named city or in a city of a named
\* state.
InNamed(d, states, cities) ==
    \/ d["city_id"] \in Named(cities)
    \/ /\ Resident(objects, "City", d["city_id"])
       /\ objects[Key("City", d["city_id"])]["state_id"] \in Named(states)

\* C25: a search that names states or cities returns only places of the
\* named cities and of the cities of the named states, whatever amenities it
\* names besides; none when no place is in them.
C25_SearchByStateCity ==
    [][(Searched /\ (Filter(req'.body.d, "states") # <<>>
                        \/ Filter(req'.body.d, "cities") # <<>>)) =>
        \A d \in resp'.list :
            InNamed(d, Filter(req'.body.d, "states"), Filter(req'.body.d, "cities"))
      ]_vars

\* C26: a search that names amenities returns only places that are linked to
\* every named id, each naming a resident Amenity; a search that names no
\* state, no city and no amenity returns every resident Place.
C26_SearchByAmenity ==
    [][Searched =>
        LET data == req'.body.d
            wanted == Filter(data, "amenities")
        IN  /\ wanted # <<>> =>
                  \A d \in resp'.list : \A id \in Named(wanted) :
                      /\ Resident(objects, "Amenity", id)
                      /\ d["id"] \in DOMAIN links
                      /\ \E i \in DOMAIN links[d["id"]] : links[d["id"]][i] = id
            /\ (Filter(data, "states") = <<>> /\ Filter(data, "cities") = <<>>
                    /\ wanted = <<>>) =>
                  resp'.list = {to_dict(objects[key], "Place", TRUE).d :
                                   key \in {k \in DOMAIN objects : k[1] = "Place"}}
      ]_vars

\* A search for two amenities returned the one Place linked to both, and not
\* the Place linked to one of them.
C26_Witness ==
    /\ phase = "responded"
    /\ req.cls = "PlacesSearch"
    /\ resp.status = 200
    /\ Filter(req.body.d, "amenities") = <<IdStr(4), OtherAmenity>>
    /\ Filter(req.body.d, "states") = <<>>
    /\ Filter(req.body.d, "cities") = <<>>
    /\ {d["id"] : d \in resp.list} = {OtherPlace}
    /\ IdStr(5) \in DOMAIN links

\* C27: a PUT /users/<id> leaves the email of every User as it was, whatever
\* the body says, and when it answers 200 the User has the value of the body
\* under every other key that is not id, created_at or updated_at (password
\* included).
C27_EmailKept ==
    [][(Handling /\ req'.method = "PUT" /\ req'.cls = "User") =>
        /\ \A key \in DOMAIN objects :
              key[1] = "User" =>
                  /\ key \in DOMAIN objects'
                  /\ objects'[key]["email"] = objects[key]["email"]
        /\ resp'.status = 200 =>
              /\ resp'.body["email"] = objects[Key("User", req'.id)]["email"]
              /\ \A k \in DOMAIN req'.body.d \ {"id", "email", "created_at", "updated_at"} :
                    objects'[Key("User", req'.id)][k] = req'.body.d[k]
      ]_vars

\* A PUT with another email answered 200 and the User has the old email.
C27_Witness ==
    /\ phase = "responded"
    /\ req.method = "PUT"
    /\ req.cls = "User"
    /\ resp.status = 200
    /\ "email" \in DOMAIN req.body.d
    /\ req.body.d["email"] # resp.body["email"]
    /\ objects[Key("User", req.id)]["email"] = OldText
====
